---- MODULE Spec2Model ----
(***************************************************************************)
(* Model of the status-bar helper scripts of IdkJustAnotherRice:           *)
(*   src/sherlock/scripts/location.py   (location resolver)                *)
(*   src/waybar/scripts/open_meteo.py   (weather reporter)                 *)
(*                                                                         *)
(* Python values that can be of several types are tagged records           *)
(* ([py |-> "None"], [py |-> "list", items |-> ...], [py |-> "dict",       *)
(* d |-> ...]); a dict is a function from its keys, a missing key is a key *)
(* outside its DOMAIN.  Strings are written as json.dumps prints them      *)
(* (ensure_ascii): a non-ASCII character is its \uXXXX escape.  Floats     *)
(* with one decimal are integers counting tenths.  The cache log is its     *)
(* bytes cut into lines: each line knows whether its newline is there, and  *)
(* only the last line of a file can lack it.                                *)
(***************************************************************************)
EXTENDS Integers, Sequences, FiniteSets, TLC

VARIABLES
    log,            \* ~/.cache/weather_cache.log: its bytes, as the lines readlines() cuts
    pc,             \* position of the running script
    place,          \* __main__: place
    coordinates,    \* __main__: coordinates
    weather_data,   \* __main__: weather_data
    data,           \* __main__: data
    stdout,         \* what the current run has printed to standard output
    now,            \* time.time() of the current run
    runs,           \* number of runs started so far
    events,         \* the current run's file appends and prints, in order
    lastGood,       \* per place: what the latest live run printed, if its cache write succeeded
    args,           \* arguments of the function under test (function specifications)
    result          \* its return value

vars == <<log, pc, place, coordinates, weather_data, data, stdout, now, runs,
          events, lastGood, args, result>>

mainVars == <<log, place, coordinates, weather_data, data, stdout, now, runs,
              events, lastGood>>

-----------------------------------------------------------------------------
(* Bounds of the model *)

MaxLogLen == 2      \* lines of the cache log drawn for get_cache
MaxInitLog == 2     \* lines of the cache log before the first run
MaxRuns == 4        \* runs of the weather reporter in one behaviour
MaxTs == 2          \* timestamps of cache entries drawn for get_cache
MaxHourly == 26     \* longest hourly array drawn for the tooltip

-----------------------------------------------------------------------------
(* Python values *)

None == [py |-> "None"]
Raise == [py |-> "raise"]                       \* the call raised an Exception
List3(city, lat, lon) == [py |-> "list", items |-> <<city, lat, lon>>]
Dict(d) == [py |-> "dict", d |-> d]
EmptyDict == <<>>
NotRun == [py |-> "not run"]

\* Python truth value of None, a list or a dict
Truthy(v) ==
    CASE v.py = "None" -> FALSE
      [] v.py = "list" -> v.items # <<>>
      [] v.py = "dict" -> DOMAIN v.d # {}
      [] OTHER -> TRUE

Cities == {"Kochi", "Delhi"}
Locations == {List3(c, lat, 76) : c \in Cities, lat \in {10, 28}}

\* What one provider call (get_loc_ipinfo, get_loc_freeipapi, get_loc_ipapi)
\* can hand to coord_finder: a [city, lat, lon] list, None, or an exception.
ProviderOutcomes == Locations \cup {None, Raise}

-----------------------------------------------------------------------------
(* coord_finder *)

\* Mutant: no per-provider try/except, an exception ends the resolution.
RECURSIVE coord_finder_unguarded(_, _, _)
coord_finder_unguarded(outcomes, i, called) ==
    IF i > Len(outcomes)
    THEN [value |-> None, called |-> called]
    ELSE IF outcomes[i] = Raise
         THEN [value |-> None, called |-> Append(called, i)]
         ELSE IF Truthy(outcomes[i])
              THEN [value |-> outcomes[i], called |-> Append(called, i)]
              ELSE coord_finder_unguarded(outcomes, i + 1, Append(called, i))

\* The for loop over locator_functions from index i on; called is the list of
\* providers invoked so far.
RECURSIVE coord_finder_loop(_, _, _)
coord_finder_loop(outcomes, i, called) ==
    IF i > Len(outcomes)
    THEN [value |-> None, called |-> called]
    ELSE IF outcomes[i] = Raise
         THEN coord_finder_loop(outcomes, i + 1, Append(called, i))
         ELSE IF Truthy(outcomes[i])
              THEN [value |-> outcomes[i], called |-> Append(called, i)]
              ELSE coord_finder_loop(outcomes, i + 1, Append(called, i))

coord_finder(outcomes) == coord_finder_loop(outcomes, 1, <<>>)

-----------------------------------------------------------------------------
(* The cache log: lines, json.loads, json.dumps *)

\* A line of the log, as f.readlines() cuts the file, is one of
\*   "text"    text that json.loads rejects as not JSON (JSONDecodeError), and
\*             still rejects with the bytes of an entry behind it: garbage,
\*             a truncated entry, two values in one line;
\*   "string"  an unclosed JSON string at top level (a double quote and
\*             abc): not JSON, but JSON once a double quote follows it;
\*   "brink"   text that is not JSON and is nested as deep as the recursion
\*             limit lets json.loads go: one more level and it may raise
\*             RecursionError;
\*   "deep"    text on which json.loads raises an exception that is no
\*             JSONDecodeError: RecursionError (nesting beyond the limit, a
\*             thousand opening brackets), ValueError (an integer of more
\*             than 4300 digits);
\*   "blank"   nothing but whitespace;
\*   "binary"  bytes that do not decode in the locale's encoding;
\*   "json"    the JSON text of a value: an object (dict) or something else
\*             (array, number, string, null);
\* nl tells whether the line ends in its newline.
TextLine == [kind |-> "text", nl |-> TRUE]
StringLine == [kind |-> "string", nl |-> TRUE]
BrinkLine == [kind |-> "brink", nl |-> TRUE]
DeepLine == [kind |-> "deep", nl |-> TRUE]
BlankLine == [kind |-> "blank", nl |-> TRUE]
BinaryLine == [kind |-> "binary", nl |-> TRUE]
JsonLine(v) == [kind |-> "json", value |-> v, nl |-> TRUE]
OtherJson == [py |-> "other"]
JSONDecodeError == [py |-> "JSONDecodeError"]

\* The same line without its newline: the last line of a file that does not
\* end in one
Unterminated(line) == [line EXCEPT !.nl = FALSE]

\* The first bytes of an entry's line, left by a write that was cut short
Fragment == Unterminated(TextLine)

\* json.loads(dater.strip()): the value, JSONDecodeError, or another exception
json_loads(line) ==
    CASE line.kind = "json" -> line.value
      [] line.kind = "deep" -> Raise
      [] OTHER -> JSONDecodeError

\* json.dumps(cache_entry) followed by "\n": one line holding the object
json_dumps_line(entry) == JsonLine(Dict(entry))

\* f.readlines() raises UnicodeDecodeError
readlines_raises(lg) == \E i \in 1..Len(lg) : lg[i].kind = "binary"

\* Timestamps: a JSON number as time.time() writes it, or a value that
\* json.loads reads and datetime.fromtimestamp does not take: a string or
\* null, a float out of range such as 1e17
Num(t) == [py |-> "float", v |-> t]
NotANumber == [py |-> "str"]
OutOfRange == [py |-> "float out of range"]

\* datetime.fromtimestamp(time_ret) raises TypeError, OverflowError or ValueError
fromtimestamp_raises(time_ret) == time_ret.py # "float"

\* Snapshots found in cache lines that this program did not write
StaleSnapshot == [text |-> "Kochi: \\uf522 30\\u00b0", tooltip |-> "<b>Kochi</b>"]

\* dicts over the keys place, data, timestamp, any of them possibly missing
EntryDicts(places, datas, stamps) ==
    LET full == {[place |-> p, data |-> x, timestamp |-> t] :
                    p \in places, x \in datas, t \in stamps}
        Restrict(f, K) == [k \in K |-> f[k]]
    IN  {Restrict(f, K) : f \in full, K \in SUBSET {"place", "data", "timestamp"}}

Lines(places, datas, stamps) ==
    {TextLine, StringLine, BrinkLine, DeepLine, BlankLine, BinaryLine, JsonLine(OtherJson)}
        \cup {JsonLine(Dict(e)) : e \in EntryDicts(places, datas, stamps)}

RECURSIVE SeqsUpTo(_, _)
SeqsUpTo(S, n) ==
    IF n = 0 THEN {<<>>}
    ELSE LET shorter == SeqsUpTo(S, n - 1)
         IN  shorter \cup {Append(q, x) : q \in {r \in shorter : Len(r) = n - 1}, x \in S}

\* Files of up to n lines of S, ending in a newline or not
FilesUpTo(S, n) ==
    SeqsUpTo(S, n)
        \cup (IF n = 0 THEN {}
              ELSE {Append(q, Unterminated(x)) : q \in SeqsUpTo(S, n - 1), x \in S})

HasStamp(line) ==
    /\ line.kind = "json"
    /\ line.value.py = "dict"
    /\ "timestamp" \in DOMAIN line.value.d
    /\ line.value.d.timestamp.py = "float"

\* weather_log stamps each line with time.time() and appends it, so the
\* stamps of a log run in file order.
StampsInFileOrder(lg) ==
    \A i, j \in 1..Len(lg) :
        (i < j /\ HasStamp(lg[i]) /\ HasStamp(lg[j]))
            => lg[i].value.d.timestamp.v <= lg[j].value.d.timestamp.v

-----------------------------------------------------------------------------
(* get_cache *)

\* Mutant: the place of an entry is not compared.
RECURSIVE get_cache_any_place(_, _, _)
get_cache_any_place(lg, i, p) ==
    IF i = 0
    THEN None
    ELSE LET cache_entry == json_loads(lg[i])
         IN  IF cache_entry = JSONDecodeError
             THEN get_cache_any_place(lg, i - 1, p)
             ELSE IF cache_entry = Raise \/ cache_entry.py # "dict"
                  THEN None
                  ELSE IF "place" \in DOMAIN cache_entry.d
                       THEN cache_entry
                       ELSE get_cache_any_place(lg, i - 1, p)

\* for dater in reversed(dat), from line i down to the first line
RECURSIVE get_cache_scan(_, _, _)
get_cache_scan(lg, i, p) ==
    IF i = 0
    THEN None
    ELSE LET cache_entry == json_loads(lg[i])
         IN  IF cache_entry = JSONDecodeError
             THEN get_cache_scan(lg, i - 1, p)         \* except JSONDecodeError: continue
             ELSE IF cache_entry = Raise
                  THEN None                            \* json.loads raised otherwise: outer except
             ELSE IF cache_entry.py # "dict"
                  THEN None                            \* .get raises AttributeError: outer except
                  ELSE IF "place" \in DOMAIN cache_entry.d /\ cache_entry.d.place = p
                       THEN cache_entry
                       ELSE get_cache_scan(lg, i - 1, p)

\* A missing log file and an empty one both give None, and so does a file
\* that readlines() cannot decode: the outer except ends the lookup.
get_cache(lg, p) ==
    IF readlines_raises(lg) THEN None ELSE get_cache_scan(lg, Len(lg), p)

-----------------------------------------------------------------------------
(* Icon tables and number formatting *)

icons_day ==
    "0" :> "\\uf522" @@ "1" :> "\\ue302" @@ "2" :> "\\ue302" @@ "3" :> "\\uebaa" @@
    "45" :> "\\uebaa" @@ "48" :> "\\uebaa" @@ "51" :> "\\ue306" @@ "53" :> "\\ue306" @@
    "55" :> "\\ue306" @@ "61" :> "\\ue316" @@ "63" :> "\\ue316" @@ "65" :> "\\ue316" @@
    "71" :> "\\ue318" @@ "73" :> "\\ue318" @@ "75" :> "\\ue318" @@ "80" :> "\\ue306" @@
    "81" :> "\\ue306" @@ "82" :> "\\ue306" @@ "85" :> "\\ue318" @@ "86" :> "\\ue318" @@
    "95" :> "\\udb81\\ude7e" @@ "96" :> "\\udb81\\ude7e" @@ "99" :> "\\udb81\\ude7e"

icons_night ==
    "0" :> "\\uf186" @@ "1" :> "\\ue37b" @@ "2" :> "\\ue37b" @@ "3" :> "\\uebaa" @@
    "45" :> "\\uebaa" @@ "48" :> "\\uebaa" @@ "51" :> "\\ue325" @@ "53" :> "\\ue325" @@
    "55" :> "\\ue325" @@ "61" :> "\\ue316" @@ "63" :> "\\ue316" @@ "65" :> "\\ue316" @@
    "71" :> "\\ue318" @@ "73" :> "\\ue318" @@ "75" :> "\\ue318" @@ "80" :> "\\ue325" @@
    "81" :> "\\ue325" @@ "82" :> "\\ue325" @@ "85" :> "\\ue318" @@ "86" :> "\\ue318" @@
    "95" :> "\\udb81\\ude7e" @@ "96" :> "\\udb81\\ude7e" @@ "99" :> "\\udb81\\ude7e"

\* The default of every icon lookup: the glyph U+F128
UnknownIcon == "\\uf128"

\* table.get(code, default)
icon_get(table, code, default) == IF code \in DOMAIN table THEN table[code] ELSE default

\* int(round(x)) of a float given in tenths: Python rounds halves to even
int_round(tenths) ==
    LET q == tenths \div 10
        r == tenths % 10
    IN  IF r < 5 THEN q
        ELSE IF r > 5 THEN q + 1
        ELSE IF q % 2 = 0 THEN q ELSE q + 1

\* str(n).zfill(2) for n in 0..23
zfill2(n) == IF n < 10 THEN "0" \o ToString(n) ELSE ToString(n)

\* Mutant: the day table serves day and night alike.
select_icon_day_only(code, is_day) == icon_get(icons_day, code, UnknownIcon)

\* icons_day.get(code, default) if is_day else icons_night.get(code, default)
select_icon(code, is_day) ==
    IF is_day # 0
    THEN icon_get(icons_day, code, UnknownIcon)
    ELSE icon_get(icons_night, code, UnknownIcon)

\* The summary line of __main__: f"{place}: {icon} {temp}\u00b0"
summary_text(place_name, current) ==
    LET temp == int_round(current["temperature_2m"])
        code == ToString(current["weather_code"])
        icon == select_icon(code, current["is_day"])
    IN  place_name \o ": " \o icon \o " " \o ToString(temp) \o "\\u00b0"

\* The summary line cannot be built: a key of "current" it reads is missing
summary_raises(current) ==
    ~ ({"temperature_2m", "weather_code", "is_day"} \subseteq DOMAIN current)

-----------------------------------------------------------------------------
(* create_openmeteo_tooltip *)

TooltipError == "Error creating tooltip"

\* Python index idx of a list is element idx + 1 of the sequence
At(list, idx) == list[idx + 1]

\* The hours +1, +2, +3 that pass `hour_idx < len(hourly["temperature_2m"])`
forecast_hours(hourly, current_hour) ==
    {i \in 1..3 : current_hour + i < Len(hourly["temperature_2m"])}

\* One line of the "Next 3h" strip
forecast_entry(hourly, current_hour, i) ==
    LET hour_idx == current_hour + i
        hour_code == At(hourly["weather_code"], hour_idx)
    IN  [hour |-> zfill2((current_hour + i) % 24),
         icon |-> icon_get(icons_day, ToString(hour_code), UnknownIcon),
         temp |-> int_round(At(hourly["temperature_2m"], hour_idx)),
         rain |-> At(hourly["precipitation_probability"], hour_idx)]

forecast_line(e) ==
    e.hour \o ": " \o e.icon \o " " \o ToString(e.temp) \o "\\u00b0"
        \o (IF e.rain > 0 THEN " " \o ToString(e.rain) \o "%" ELSE "")

\* KeyError or IndexError somewhere in the function body
tooltip_raises(wd, current_hour) ==
    \/ ~ ({"current", "hourly"} \subseteq DOMAIN wd)
    \/ ~ ({"temperature_2m", "apparent_temperature", "wind_speed_10m",
           "relative_humidity_2m"} \subseteq DOMAIN wd["current"])
    \/ "temperature_2m" \notin DOMAIN wd["hourly"]
    \/ \E i \in forecast_hours(wd["hourly"], current_hour) :
          \/ ~ ({"weather_code", "precipitation_probability"} \subseteq DOMAIN wd["hourly"])
          \/ current_hour + i >= Len(wd["hourly"]["weather_code"])
          \/ current_hour + i >= Len(wd["hourly"]["precipitation_probability"])

\* hourly.get("precipitation_probability") is a non-empty list
has_precipitation(hourly) ==
    /\ "precipitation_probability" \in DOMAIN hourly
    /\ hourly["precipitation_probability"] # <<>>

\* The forecast entries of the tooltip, hours in increasing order
forecast_entries(hourly, current_hour) ==
    LET H == forecast_hours(hourly, current_hour)
        pick(i) == IF i \in H THEN <<forecast_entry(hourly, current_hour, i)>> ELSE <<>>
    IN  pick(1) \o pick(2) \o pick(3)

RECURSIVE join_lines(_)
join_lines(ls) ==
    IF ls = <<>> THEN ""
    ELSE IF Len(ls) = 1 THEN ls[1]
    ELSE ls[1] \o "\\n" \o join_lines(Tail(ls))

RECURSIVE map_forecast_line(_)
map_forecast_line(es) ==
    IF es = <<>> THEN <<>> ELSE <<forecast_line(es[1])>> \o map_forecast_line(Tail(es))

\* The result as [error, forecast, text]: text is the returned string,
\* forecast the entries behind its "Next 3h" lines.
create_openmeteo_tooltip(wd, place_name, current_hour) ==
    IF tooltip_raises(wd, current_hour)
    THEN [error |-> TRUE, forecast |-> <<>>, text |-> TooltipError]
    ELSE LET current == wd["current"]
             hourly == wd["hourly"]
             head == << "<b>" \o place_name \o "</b>",
                        "Temp: <b>" \o ToString(int_round(current["temperature_2m"]))
                            \o "\\u00b0C</b>",
                        "Feels like: " \o ToString(int_round(current["apparent_temperature"]))
                            \o "\\u00b0C",
                        "Wind: " \o ToString(int_round(current["wind_speed_10m"])) \o " km/h",
                        "Humidity: " \o ToString(current["relative_humidity_2m"]) \o "%" >>
             precip == IF has_precipitation(hourly)
                       THEN << "Precipitation: "
                                \o ToString(At(hourly["precipitation_probability"], 0)) \o "%" >>
                       ELSE <<>>
             es == forecast_entries(hourly, current_hour)
         IN  [error |-> FALSE,
              forecast |-> es,
              text |-> join_lines(head \o precip \o <<"", "<b>Next 3h</b>">>
                                    \o map_forecast_line(es))]

-----------------------------------------------------------------------------
(* Inputs: weather responses *)

\* Hourly arrays as the API fills them: hour h (0-based) of the day
HourTemp(h) == 200 + 5 * h
HourCode(h) == CASE h % 3 = 0 -> 0 [] h % 3 = 1 -> 61 [] OTHER -> 4
HourRain(h) == IF h % 2 = 0 THEN 0 ELSE 10 + h

HourlyOf(nt, nc, np) ==
    [temperature_2m |-> [k \in 1..nt |-> HourTemp(k - 1)],
     weather_code |-> [k \in 1..nc |-> HourCode(k - 1)],
     precipitation_probability |-> [k \in 1..np |-> HourRain(k - 1)]]

CurrentOf(temp, code, is_day) ==
    [temperature_2m |-> temp, apparent_temperature |-> temp + 17,
     wind_speed_10m |-> 125, relative_humidity_2m |-> 60,
     weather_code |-> code, is_day |-> is_day]

FullDay == HourlyOf(24, 24, 24)

\* What openmeteo_get_weather_data can return in a run: None (the request or
\* its decoding failed), or the decoded response, complete or not.
WeatherResponses ==
    { None,
      Dict([hourly |-> FullDay]),
      Dict([current |-> [weather_code |-> 0, is_day |-> 1], hourly |-> FullDay]),
      Dict([current |-> CurrentOf(305, 0, 1), hourly |-> FullDay]),
      Dict([current |-> CurrentOf(-5, 0, 0)]) }

\* datetime.now().hour in a run
MainHours == {22}

-----------------------------------------------------------------------------
(* weather_log and the fixed payloads of __main__ *)

cache_entry_of(place_name, snapshot, stamp) ==
    [place |-> place_name, data |-> snapshot, timestamp |-> Num(stamp)]

\* How the write of weather_log can end: all bytes written; nothing written
\* (open or write raised); the first byte written (the opening brace); the
\* first two (brace and double quote); three bytes or more but not all; all
\* but the newline.  Every outcome but
\* the first raises inside weather_log.
WriteOutcomes == {"written", "refused", "cut1", "cut2", "cut", "unterminated"}

\* The bytes an outcome puts into the file, read as a line of their own
Piece(outcome, line) ==
    CASE outcome = "written" -> line
      [] outcome = "unterminated" -> Unterminated(line)
      [] OTHER -> Fragment

\* What the last line of a file reads as once the bytes of an entry follow
\* it.  Blank bytes change nothing.  An unclosed string goes on through the
\* brace and is closed by the double quote behind it; with more behind that
\* quote the line is no JSON.  Behind text at the brink of the recursion limit the braces of
\* the entry go over the limit or not (over), as the interpreter's stack
\* has it.  Anything else in front of an entry's text is no JSON (text
\* before a value, or two values in one line).
Glue(last, outcome, line, over) ==
    LET piece == Piece(outcome, line)
    IN  CASE last.kind = "blank" -> piece
          [] last.kind \in {"binary", "deep"} -> [kind |-> last.kind, nl |-> piece.nl]
          [] last.kind = "brink" ->
                [kind |-> IF over THEN "deep" ELSE "brink", nl |-> piece.nl]
          [] last.kind = "string" /\ outcome = "cut1" -> Unterminated(StringLine)
          [] last.kind = "string" /\ outcome = "cut2" -> Unterminated(JsonLine(OtherJson))
          [] OTHER -> [kind |-> "text", nl |-> piece.nl]

\* open(log_path, "a") and f.write: the bytes go behind the last byte of the
\* file, on a line of their own only if the file ends in a newline
AppendBytes(lg, outcome, line, over) ==
    IF lg = <<>> \/ lg[Len(lg)].nl
    THEN Append(lg, Piece(outcome, line))
    ELSE [lg EXCEPT ![Len(lg)] = Glue(lg[Len(lg)], outcome, line, over)]

weather_log(lg, place_name, snapshot, stamp, outcome, over) ==
    IF outcome = "refused"
    THEN lg
    ELSE AppendBytes(lg, outcome,
                     json_dumps_line(cache_entry_of(place_name, snapshot, stamp)), over)

Unavailable(place_name) ==
    [text |-> "\\ud83c\\udf21\\ufe0f --\\u00b0",
     tooltip |-> "Weather unavailable for " \o place_name]

ErrorPayload == [text |-> "\\uf128 Error", tooltip |-> "Check ~/.cache/waybar_weather.log"]

AppendEvent(entry, outcome) ==
    [op |-> "append", entry |-> entry, outcome |-> outcome, ok |-> outcome = "written"]
PrintEvent(value) == [op |-> "print", value |-> value]

Places == Cities \cup {"Unknown"}

-----------------------------------------------------------------------------
(* One run of the weather reporter, __main__ of open_meteo.py *)

\* `if weather_data and "current" in weather_data`
HasCurrent(wd) == Truthy(wd) /\ "current" \in DOMAIN wd.d

\* coordinates = coord_finder()
CoordFinder ==
    /\ pc = "start"
    /\ \E o1, o2, o3 \in ProviderOutcomes :
          coordinates' = coord_finder(<<o1, o2, o3>>).value
    /\ pc' = "coords"
    /\ UNCHANGED <<log, place, weather_data, data, stdout, now, runs, events,
                   lastGood, args, result>>

\* if coordinates: place = coordinates[0]; weather_data = openmeteo_get_weather_data(...)
GetWeather ==
    /\ pc = "coords"
    /\ Truthy(coordinates)
    /\ place' = coordinates.items[1]
    /\ \E w \in WeatherResponses : weather_data' = w
    /\ pc' = "weather"
    /\ UNCHANGED <<log, coordinates, data, stdout, now, runs, events, lastGood,
                   args, result>>

\* The API SUCCESS block up to the assignment of data
Render ==
    /\ pc = "weather"
    /\ HasCurrent(weather_data)
    /\ IF summary_raises(weather_data.d["current"])
       THEN /\ pc' = "except"
            /\ data' = data
       ELSE /\ \E current_hour \in MainHours :
                 data' = [text |-> summary_text(place, weather_data.d["current"]),
                          tooltip |-> create_openmeteo_tooltip(weather_data.d, place,
                                                               current_hour).text]
            /\ pc' = "log"
    /\ UNCHANGED <<log, place, coordinates, weather_data, stdout, now, runs,
                   events, lastGood, args, result>>

\* Mutant: weather_log has no try/except, a failed write reaches the handler of __main__.
WeatherLogUnguarded ==
    /\ pc = "log"
    /\ \E outcome \in WriteOutcomes, over \in BOOLEAN :
          /\ log' = weather_log(log, place, data, now, outcome, over)
          /\ events' = Append(events, AppendEvent(cache_entry_of(place, data, now), outcome))
          /\ pc' = IF outcome = "written" THEN "print" ELSE "except"
    /\ UNCHANGED <<place, coordinates, weather_data, data, stdout, now, runs,
                   lastGood, args, result>>

\* weather_log(place, data); the write succeeds or raises inside weather_log
WeatherLog ==
    /\ pc = "log"
    /\ \E outcome \in WriteOutcomes, over \in BOOLEAN :
          /\ log' = weather_log(log, place, data, now, outcome, over)
          /\ events' = Append(events, AppendEvent(cache_entry_of(place, data, now), outcome))
    /\ pc' = "print"
    /\ UNCHANGED <<place, coordinates, weather_data, data, stdout, now, runs,
                   lastGood, args, result>>

\* The FALLBACK TO CACHE block: `if not data`
Fallback ==
    /\ \/ pc = "coords" /\ ~ Truthy(coordinates)
       \/ pc = "weather" /\ ~ HasCurrent(weather_data)
    /\ LET cached_data == get_cache(log, place)
       IN  IF Truthy(cached_data)
           THEN IF "data" \notin DOMAIN cached_data.d
                THEN /\ data' = data                       \* KeyError: 'data'
                     /\ pc' = "except"
                ELSE /\ data' = cached_data.d["data"]
                     /\ pc' = IF "timestamp" \notin DOMAIN cached_data.d
                              THEN "except"                \* KeyError: 'timestamp'
                              ELSE IF fromtimestamp_raises(cached_data.d["timestamp"])
                                   THEN "except"           \* datetime.fromtimestamp raises
                                   ELSE "print"
           ELSE /\ data' = Unavailable(place)
                /\ pc' = "print"
    /\ UNCHANGED <<log, place, coordinates, weather_data, stdout, now, runs,
                   events, lastGood, args, result>>

\* print(json.dumps(data))
PrintData ==
    /\ pc = "print"
    /\ stdout' = Append(stdout, data)
    /\ events' = Append(events, PrintEvent(data))
    /\ lastGood' = IF events # <<>> /\ events[1].op = "append"
                   THEN [lastGood EXCEPT ![place] = IF events[1].ok THEN data ELSE NotRun]
                   ELSE lastGood
    /\ pc' = "done"
    /\ UNCHANGED <<log, place, coordinates, weather_data, data, now, runs,
                   args, result>>

\* except Exception: print the error payload
MainError ==
    /\ pc = "except"
    /\ stdout' = Append(stdout, ErrorPayload)
    /\ events' = Append(events, PrintEvent(ErrorPayload))
    /\ pc' = "done"
    /\ UNCHANGED <<log, place, coordinates, weather_data, data, now, runs,
                   lastGood, args, result>>

\* The status bar starts the script again: a new process, a later time
NextRun ==
    /\ pc = "done"
    /\ runs < MaxRuns
    /\ runs' = runs + 1
    /\ now' = now + 1
    /\ pc' = "start"
    /\ place' = "Unknown"
    /\ coordinates' = None
    /\ weather_data' = None
    /\ data' = EmptyDict
    /\ stdout' = <<>>
    /\ events' = <<>>
    /\ UNCHANGED <<log, lastGood, args, result>>

\* Entry objects for place p a log may hold before the first run: complete
\* ones, with an empty snapshot, with a timestamp that is no usable number,
\* without data, without timestamp
MainEntries(p) ==
    { [place |-> p, data |-> StaleSnapshot, timestamp |-> Num(0)],
      [place |-> p, data |-> EmptyDict, timestamp |-> Num(0)],
      [place |-> p, data |-> StaleSnapshot, timestamp |-> NotANumber],
      [place |-> p, data |-> StaleSnapshot, timestamp |-> OutOfRange],
      [place |-> p, timestamp |-> Num(0)],
      [place |-> p, data |-> StaleSnapshot] }

\* Lines a log may hold before the first run
MainLines ==
    {TextLine, StringLine, BrinkLine, DeepLine, BlankLine, BinaryLine, JsonLine(OtherJson),
     JsonLine(Dict([data |-> StaleSnapshot, timestamp |-> Num(0)]))}
        \cup {JsonLine(Dict(e)) : e \in MainEntries("Unknown") \cup MainEntries("Kochi")}

InitRun ==
    /\ pc = "start"
    /\ place = "Unknown"
    /\ coordinates = None
    /\ weather_data = None
    /\ data = EmptyDict
    /\ stdout = <<>>
    /\ events = <<>>
    /\ now = 1
    /\ runs = 1
    /\ lastGood = [p \in Places |-> NotRun]
    /\ args = NotRun
    /\ result = NotRun

\* One run, over any log of up to MaxInitLog lines
Init ==
    /\ log \in FilesUpTo(MainLines, MaxInitLog)
    /\ InitRun

Next ==
    \/ CoordFinder
    \/ GetWeather
    \/ Render
    \/ WeatherLog
    \/ Fallback
    \/ PrintData
    \/ MainError

Spec == Init /\ [][Next]_vars

\* Run after run, from a log this program wrote: none yet, or one entry of
\* an earlier run.  (Later lines, whole or cut short, come from the runs.)
SeedLogs ==
    { <<>>, <<json_dumps_line(cache_entry_of("Kochi", StaleSnapshot, 0))>> }

InitRuns ==
    /\ log \in SeedLogs
    /\ InitRun

NextRuns == Next \/ NextRun

SpecRuns == InitRuns /\ [][NextRuns]_vars

-----------------------------------------------------------------------------
(* Specifications of single functions: the arguments are drawn in the       *)
(* initial state, the one action calls the function.                        *)

InitCall ==
    /\ pc = "call"
    /\ result = NotRun
    /\ place = "Unknown"
    /\ coordinates = None
    /\ weather_data = None
    /\ data = EmptyDict
    /\ stdout = <<>>
    /\ events = <<>>
    /\ now = 1
    /\ runs = 1
    /\ lastGood = [p \in Places |-> NotRun]

\* coord_finder() over every combination of provider outcomes
InitResolver ==
    /\ InitCall
    /\ log = <<>>
    /\ args \in {<<o1, o2, o3>> : o1 \in ProviderOutcomes, o2 \in ProviderOutcomes,
                                  o3 \in ProviderOutcomes}

CallCoordFinder ==
    /\ pc = "call"
    /\ result' = coord_finder(args)
    /\ pc' = "return"
    /\ UNCHANGED <<mainVars, args>>

SpecResolver == InitResolver /\ [][CallCoordFinder]_vars

\* get_cache(place) over cache logs of up to MaxLogLen lines
CacheLines == Lines(Cities, {StaleSnapshot}, {Num(t) : t \in 1..MaxTs})

InitCache ==
    /\ InitCall
    /\ log \in {lg \in SeqsUpTo(CacheLines, MaxLogLen) : StampsInFileOrder(lg)}
    /\ args \in {[place |-> p] : p \in Cities}

CallGetCache ==
    /\ pc = "call"
    /\ result' = get_cache(log, args.place)
    /\ pc' = "return"
    /\ UNCHANGED <<mainVars, args>>

SpecCache == InitCache /\ [][CallGetCache]_vars

\* create_openmeteo_tooltip over every hour of the day and hourly arrays of
\* independent lengths, short ones and ones about a day long
HourlyLens == (0..3) \cup ((MaxHourly - 4)..MaxHourly)

InitTooltip ==
    /\ InitCall
    /\ log = <<>>
    /\ args \in {[weather_data |-> [current |-> CurrentOf(305, 0, 1),
                                    hourly |-> HourlyOf(nt, nc, np)],
                  place_name |-> "Kochi",
                  current_hour |-> h] :
                    nt \in HourlyLens, nc \in HourlyLens, np \in HourlyLens, h \in 0..23}

CallTooltip ==
    /\ pc = "call"
    /\ result' = create_openmeteo_tooltip(args.weather_data, args.place_name,
                                          args.current_hour)
    /\ pc' = "return"
    /\ UNCHANGED <<mainVars, args>>

SpecTooltip == InitTooltip /\ [][CallTooltip]_vars

\* The summary line over every weather code of the tables, codes outside
\* them, day and night
TableCodes == {0, 1, 2, 3, 45, 48, 51, 53, 55, 61, 63, 65, 71, 73, 75, 80, 81, 82,
               85, 86, 95, 96, 99}
OtherCodes == {4, 100}

InitSummary ==
    /\ InitCall
    /\ log = <<>>
    /\ args \in {[place |-> p, current |-> CurrentOf(t, c, d)] :
                    p \in Cities, t \in {-15, 305}, c \in TableCodes \cup OtherCodes,
                    d \in {0, 1}}

CallSummary ==
    /\ pc = "call"
    /\ result' = summary_text(args.place, args.current)
    /\ pc' = "return"
    /\ UNCHANGED <<mainVars, args>>

SpecSummary == InitSummary /\ [][CallSummary]_vars

-----------------------------------------------------------------------------
(* Properties *)

Min(S) == CHOOSE x \in S : \A y \in S : x <= y
Max(S) == CHOOSE x \in S : \A y \in S : x >= y

\* A log line that is an entry object with all three fields, for place p
WellFormedMatch(line, p) ==
    /\ line.kind = "json"
    /\ line.value.py = "dict"
    /\ DOMAIN line.value.d = {"place", "data", "timestamp"}
    /\ line.value.d.place = p
    /\ line.value.d.timestamp.py = "float"

\* A log line that is an object whose place is p
EntryFor(line, p) ==
    /\ line.kind = "json"
    /\ line.value.py = "dict"
    /\ "place" \in DOMAIN line.value.d
    /\ line.value.d.place = p

\* The current run obtained live weather and built its snapshot
LiveRun ==
    /\ Truthy(coordinates)
    /\ HasCurrent(weather_data)
    /\ ~ summary_raises(weather_data.d["current"])

\* The run has called weather_log
HasAppend(evs) == \E k \in 1..Len(evs) : evs[k].op = "append"

\* C1: coord_finder calls the providers in the order 1, 2, 3 up to the first
\* one that returns a location, returns exactly that provider's output, and
\* returns None (having called all three) exactly when none succeeds; a
\* provider that raises or returns None does not stop the later ones.
C1_FirstSuccessWins ==
    pc = "return" =>
        LET S == {i \in 1..3 : args[i] \in Locations}
        IN  IF S = {}
            THEN result.value = None /\ result.called = <<1, 2, 3>>
            ELSE /\ result.value = args[Min(S)]
                 /\ result.called = [k \in 1..Min(S) |-> k]

C1_Witness ==
    /\ pc = "return"
    /\ args[1] = Raise
    /\ args[2] = None
    /\ args[3] \in Locations
    /\ result.value = args[3]
    /\ result.called = <<1, 2, 3>>

\* C2: when the log holds well-formed entries for the place, get_cache
\* returns the one of them with the latest timestamp, whatever other lines
\* (text that is not JSON, JSON that is not an entry object) the log holds.
C2_LatestWellFormed ==
    pc = "return" =>
        LET W == {i \in 1..Len(log) : WellFormedMatch(log[i], args.place)}
        IN  W # {} =>
              /\ result # None
              /\ \E i \in W :
                    /\ result = log[i].value
                    /\ \A j \in W : log[j].value.d.timestamp.v <= log[i].value.d.timestamp.v

\* What C3 expects of a failed run: the snapshot of the newest well-formed
\* entry for the place, or the unavailable placeholder when there is none
ExpectedFallback(lg, p) ==
    LET W == {i \in 1..Len(lg) : WellFormedMatch(lg[i], p)}
    IN  IF W = {} THEN Unavailable(p) ELSE lg[Max(W)].value.d.data

\* C3: a run that did not obtain live weather (no location, no weather
\* response, or a response that is incomplete) prints the snapshot of the
\* most recent cache entry for its place, or the unavailable placeholder
\* when there is none, and nothing else.
C3_FailureFallsBack ==
    (pc = "done" /\ ~ LiveRun) => stdout = <<ExpectedFallback(log, place)>>

\* C4: a finished run has printed exactly one JSON object, and the object
\* has the keys text and tooltip.
C4_OneObjectBothKeys ==
    pc = "done" =>
        /\ Len(stdout) = 1
        /\ {"text", "tooltip"} \subseteq DOMAIN stdout[1]

\* C5 as stated: when all three providers fail, the run prints the
\* unavailable placeholder whatever the cache log holds.
C5_AlwaysPlaceholder ==
    (pc = "done" /\ ~ Truthy(coordinates)) => stdout = <<Unavailable("Unknown")>>

\* C5 amended: when all three providers fail and the cache log holds no
\* entry object whose place is "Unknown", the run prints the unavailable
\* placeholder (glyph and temperature dash, "Weather unavailable for Unknown").
C5_PlaceholderWithoutUnknownEntry ==
    (/\ pc = "done"
     /\ ~ Truthy(coordinates)
     /\ \A i \in 1..Len(log) : ~ EntryFor(log[i], "Unknown"))
        => stdout = <<Unavailable("Unknown")>>

C5_Witness ==
    /\ pc = "done"
    /\ ~ Truthy(coordinates)
    /\ \E i \in 1..Len(log) : WellFormedMatch(log[i], "Kochi")
    /\ \A i \in 1..Len(log) : ~ EntryFor(log[i], "Unknown")
    /\ stdout = <<Unavailable("Unknown")>>

\* C6: a run that obtained live weather first attempts the append of its
\* cache entry and then prints; the printed snapshot is the data of that
\* entry; this holds whatever became of the write (all of it written, part
\* of it, nothing).
C6_AppendThenPrint ==
    (pc = "done" /\ LiveRun) =>
        /\ Len(events) = 2
        /\ events[1].op = "append"
        /\ events[1].entry = cache_entry_of(place, data, now)
        /\ events[2] = PrintEvent(events[1].entry.data)
        /\ stdout = <<events[1].entry.data>>

C6_Witness ==
    /\ pc = "done"
    /\ LiveRun
    /\ Len(events) = 2
    /\ events[1].op = "append"
    /\ events[1].outcome = "refused"
    /\ stdout = <<data>>
    /\ data.text = summary_text(place, weather_data.d["current"])

\* C7: with all three hourly arrays shorter than current_hour + 3, the
\* tooltip is built without error and holds one forecast line for each of
\* the hours +1, +2, +3 that lies inside the arrays, none for the others.
C7_ShortArraysOmitHours ==
    LET hourly == args.weather_data["hourly"]
        h == args.current_hour
        short == \A k \in DOMAIN hourly : Len(hourly[k]) < h + 3
        inRange == {i \in 1..3 : \A k \in DOMAIN hourly : h + i < Len(hourly[k])}
    IN  (pc = "return" /\ short) =>
            /\ ~ result.error
            /\ Len(result.forecast) = Cardinality(inRange)

\* The summary line around a given icon
SummaryWith(icon) ==
    args.place \o ": " \o icon \o " "
        \o ToString(int_round(args.current["temperature_2m"])) \o "\\u00b0"

TableIcon(missing) ==
    LET code == ToString(args.current["weather_code"])
        table == IF args.current["is_day"] = 1 THEN icons_day ELSE icons_night
    IN  IF args.current["weather_code"] \in TableCodes THEN table[code] ELSE missing

\* C8 as stated: the icon of the summary line is the day table's icon for
\* the code when is_day is true, the night table's when it is false, and
\* empty when the code is in neither table.
C8_EmptyIconForUnknownCode ==
    pc = "return" => result = SummaryWith(TableIcon(""))

\* C8 amended: the icon of the summary line is the day table's icon for the
\* code when is_day is true, the night table's when it is false, and the
\* fixed glyph U+F128 when the code is in neither table; no code fails.
C8_TableIconOrUnknownGlyph ==
    pc = "return" => result = SummaryWith(TableIcon("\\uf128"))

C8_Witness ==
    /\ pc = "return"
    /\ args.current["weather_code"] = 0
    /\ args.current["is_day"] = 0
    /\ result = args.place \o ": \\uf186 " \o "-2\\u00b0"

\* C9: no step removes a line of the log or changes one, and a step adds
\* at most one line, at the end; the log changes only in the cache write of
\* a run that obtained live weather, at most once in a run; a write that
\* succeeded has added, as the last line, the entry with the place the
\* resolver returned in that run and the run's snapshot; a run that ends
\* without live weather has not written.
C9_AppendOnly ==
    [][ /\ Len(log) <= Len(log')
        /\ Len(log') <= Len(log) + 1
        /\ SubSeq(log', 1, Len(log)) = log
        /\ log' # log =>
              /\ pc = "log"
              /\ LiveRun
              /\ ~ HasAppend(events)
        /\ (pc = "log" /\ events'[Len(events')].ok) =>
              /\ Len(log') = Len(log) + 1
              /\ WellFormedMatch(log'[Len(log')], coordinates.items[1])
              /\ log'[Len(log')].value.d.data = data
        /\ (pc' = "done" /\ ~ LiveRun') => ~ HasAppend(events') ]_vars

\* C10: a run for a place whose weather fetch gives no usable response
\* prints exactly what the latest live run for that place printed, when that
\* run's cache write succeeded, however many entries for other places were
\* appended since; the runs start from a log this program wrote.
C10_RoundTrip ==
    (/\ pc = "done"
     /\ Truthy(coordinates)
     /\ ~ HasCurrent(weather_data)
     /\ lastGood[place] # NotRun)
        => stdout = <<lastGood[place]>>

====
